---------------------------- MODULE Spec2Model ----------------------------
(***************************************************************************)
(* openclaw-costs: the fetch hook (scripts/cost-hook.mjs, first part) that *)
(* records the token usage of completion-API calls in a JSONL log, and the *)
(* report (second part of the same file) that reads the log back, groups   *)
(* the calls by context and prints the alerts, top and weekly views.       *)
(*                                                                         *)
(* Money. Prices are USD per million tokens, so tokens * price is a sum in *)
(* micro-dollars. All prices are multiples of 0.01, so the model counts    *)
(* estimateCost in units of 1e-8 USD (hundredths of a micro-dollar) and a  *)
(* record's cost, which the hook rounds to six decimals, in micro-dollars. *)
(* The arithmetic is exact; the floating-point error of the JavaScript     *)
(* build is not modelled.                                                  *)
(*                                                                         *)
(* Text. A string that the code only copies and slices is [s, len]: an     *)
(* identity and a length. An event stream is a sequence of tokens, so that *)
(* it can be cut into chunks anywhere between two tokens. A string that    *)
(* the report rewrites or searches (normalizeContext) is the sequence of   *)
(* its characters.                                                         *)
(***************************************************************************)
EXTENDS Integers, Sequences, FiniteSets, TLC

VARIABLES
    calls,      \* one frame per invocation of the patched fetch
    fs,         \* the data directory: calls.jsonl and calls.jsonl.old
    sse,        \* a log-stream reader taken alone (chunking of an event text)
    rec,        \* the non-streaming .then callback taken alone
    rep,        \* the report side: clock, lookback window, what loadCalls returned
    cls,        \* extractContext taken alone: a request body and its label
    cli         \* a report command taken alone: the calls loaded, what it printed

vars == <<calls, fs, sse, rec, rep, cls, cli>>

----------------------------------------------------------------------------
(* Bounds of the model *)

MaxCalls == 2       \* invocations of the patched fetch, all possibly in flight at once
MaxLines == 2       \* event lines of a streamed body
MaxReads == 2       \* reads that deliver a chunk before the stream ends
MaxAppends == 3     \* appends of the sink in the sink/loader specification
MaxTok == 2         \* largest token count of a usage object

(* Program constants *)

MAX_FILE_SIZE == 52428800   \* 50 * 1024 * 1024
DefaultDays == 7            \* loadCalls(days = 7)

Min(a, b) == IF a < b THEN a ELSE b

----------------------------------------------------------------------------
(* Pricing and estimateCost *)

Models == {"claude-sonnet-4-5-20250929", "claude-sonnet-4-20250514",
           "claude-opus-4-20250514", "claude-haiku-4-5-20251001"}

\* USD per million tokens, times 100
DEFAULT_PRICING == [in |-> 300, out |-> 1500, cache_read |-> 30, cache_write |-> 375]

PRICING(model) ==
    CASE model = "claude-sonnet-4-5-20250929" ->
             [in |-> 300, out |-> 1500, cache_read |-> 30, cache_write |-> 375]
      [] model = "claude-sonnet-4-20250514" ->
             [in |-> 300, out |-> 1500, cache_read |-> 30, cache_write |-> 375]
      [] model = "claude-opus-4-20250514" ->
             [in |-> 1500, out |-> 7500, cache_read |-> 150, cache_write |-> 1875]
      [] model = "claude-haiku-4-5-20251001" ->
             [in |-> 80, out |-> 400, cache_read |-> 8, cache_write |-> 100]

\* PRICING[model] || DEFAULT_PRICING
PriceOf(model) == IF model \in Models THEN PRICING(model) ELSE DEFAULT_PRICING

\* in units of 1e-8 USD
estimateCost(model, inTok, outTok, cacheRead, cacheWrite) ==
    LET p == PriceOf(model)
    IN  inTok * p.in + outTok * p.out
        + cacheRead * p.cache_read + cacheWrite * p.cache_write

\* Math.round(x * 1e6) / 1e6, in micro-dollars: halves round up
RoundMicro(c) == (c + 50) \div 100


----------------------------------------------------------------------------
(* Request bodies (JSON values) and the request-side inspection *)

Text(s, len) == [s |-> s, len |-> len]
NoText == Text("", 0)

\* t.slice(0, n)
Slice(t, n) == [s |-> t.s, len |-> Min(t.len, n)]

\* a label is a string with an optional literal prefix ("cron:", "system:")
Label(pre, t) == [pre |-> pre, s |-> t.s, len |-> t.len]
UnknownLabel == Label("", Text("unknown", 7))
CompactionLabel == Label("", Text("compaction", 10))

CronText == Text("[cron:1a2b-3c Gmail Digest ] check the inbox", 44)
CompactedText == Text("The conversation history before this point was compacted into the following summary: ...", 160)
LongText == Text("a user message of 250 characters", 250)
HelloText == Text("hello", 5)

\* text.match(/^\[cron:[a-f0-9-]+ ([^\]]+)\]/i), then cronMatch[1].trim()
CronMatch(t) ==
    IF t.s = CronText.s /\ t.len >= 28
    THEN [hit |-> TRUE, name |-> Text("Gmail Digest", 12)]
    ELSE [hit |-> FALSE, name |-> NoText]

\* text.startsWith('The conversation history before this point was compacted')
IsCompacted(t) == t.s = CompactedText.s /\ t.len >= 56

NoContent == [tag |-> "absent", text |-> NoText]
StringContent(t) == [tag |-> "string", text |-> t]
\* a list of typed blocks; text is that of its first block of type "text"
BlocksContent(t) == [tag |-> "blocks", text |-> t]

NullMsg == [tag |-> "null", role |-> "", content |-> NoContent]
Msg(role, content) == [tag |-> "object", role |-> role, content |-> content]

NoMessages == [tag |-> "absent", items |-> <<>>]
MsgList(items) == [tag |-> "list", items |-> items]
\* "messages": {...} or "messages": 5 : truthy and not iterable
MsgObject == [tag |-> "object", items |-> <<>>]
\* "messages": "abc" : iterable, its elements are one-character strings
MsgString == [tag |-> "string", items |-> <<>>]

NoUserId == [tag |-> "absent", s |-> "", len |-> 0]
UserId(t) == [tag |-> "string", s |-> t.s, len |-> t.len]
\* "metadata": {"user_id": 7} : truthy and not a string
NumberUserId == [tag |-> "number", s |-> "", len |-> 0]

JsonObject(model, stream, userId, messages, system) ==
    [tag |-> "object", model |-> model, stream |-> stream, user_id |-> userId,
     messages |-> messages, system |-> system]
EmptyObject == JsonObject("", FALSE, NoUserId, NoMessages, NoText)
\* JSON null; its fields are never read, they only keep the record's shape
JsonNull == [EmptyObject EXCEPT !.tag = "null"]
\* a JSON number, string or array: reading a field of it gives undefined
JsonOther == [EmptyObject EXCEPT !.tag = "other"]

\* typeof msg.content === 'string' ? msg.content
\*   : Array.isArray(msg.content) ? msg.content.find(b => b?.type === 'text')?.text || '' : ''
MsgText(msg) ==
    IF msg.content.tag \in {"string", "blocks"} THEN msg.content.text ELSE NoText

\* body?.messages || []  followed by  for (const msg of messages)
\* iter: whether the for-of can start; items: what it walks over
Messages(body) ==
    IF body.tag # "object" THEN [iter |-> TRUE, items |-> <<>>]
    ELSE CASE body.messages.tag = "absent" -> [iter |-> TRUE, items |-> <<>>]
           [] body.messages.tag = "list" -> [iter |-> TRUE, items |-> body.messages.items]
           \* the characters of a string have no role: every one is skipped
           [] body.messages.tag = "string" -> [iter |-> TRUE, items |-> <<>>]
           [] body.messages.tag = "object" -> [iter |-> FALSE, items |-> <<>>]

Returned(v) == [threw |-> FALSE, found |-> TRUE, val |-> v]
NotFound == [threw |-> FALSE, found |-> FALSE, val |-> UnknownLabel]
TypeError == [threw |-> TRUE, found |-> FALSE, val |-> UnknownLabel]

\* the loop of extractContext from message k on
RECURSIVE ContextLoop(_, _)
ContextLoop(items, k) ==
    IF k > Len(items) THEN NotFound
    ELSE LET msg == items[k]
             text == MsgText(msg)
         IN  IF msg.tag = "null" THEN TypeError              \* msg.role of null
             ELSE IF msg.role # "user" THEN ContextLoop(items, k + 1)
             ELSE IF text.len = 0 THEN ContextLoop(items, k + 1)
             ELSE IF CronMatch(text).hit
                  THEN Returned(Label("cron:", CronMatch(text).name))
             ELSE IF IsCompacted(text) THEN Returned(CompactionLabel)
             ELSE Returned(Label("", Slice(text, 100)))

\* a faulty variant: the messages and the system prompt are looked at first,
\* the identifier only when they give no label
extractContextIdLast(body) ==
    LET m == Messages(body)
        r == ContextLoop(m.items, 1)
    IN  IF ~m.iter THEN TypeError
        ELSE IF r.threw \/ r.found THEN r
        ELSE IF body.tag = "object" /\ body.system.len > 0
             THEN Returned(Label("system:", Slice(body.system, 80)))
        ELSE IF body.tag = "object" /\ body.user_id.tag = "string" /\ body.user_id.len > 0
             THEN Returned(Label("", Text(body.user_id.s, body.user_id.len)))
        ELSE Returned(UnknownLabel)

\* body?.metadata?.user_id is the field user_id of the model's body
extractContext(body) ==
    IF body.tag = "object" /\ body.user_id.tag = "string" /\ body.user_id.len > 0
    THEN Returned(Label("", Text(body.user_id.s, body.user_id.len)))
    ELSE LET m == Messages(body)
             r == ContextLoop(m.items, 1)
         IN  IF ~m.iter THEN TypeError                       \* messages is not iterable
             ELSE IF r.threw \/ r.found THEN r
             ELSE IF body.tag = "object" /\ body.system.len > 0
                  THEN Returned(Label("system:", Slice(body.system, 80)))
             ELSE Returned(UnknownLabel)

RECURSIVE PreviewLoop(_, _)
PreviewLoop(items, k) ==
    IF k > Len(items) THEN Returned(Label("", NoText))
    ELSE LET msg == items[k]
             text == MsgText(msg)
         IN  IF msg.tag = "null" THEN TypeError
             ELSE IF msg.role # "user" THEN PreviewLoop(items, k + 1)
             ELSE IF text.len > 0 THEN Returned(Label("", Slice(text, 200)))
             ELSE PreviewLoop(items, k + 1)

extractPreview(body) ==
    LET m == Messages(body)
    IN  IF ~m.iter THEN TypeError ELSE PreviewLoop(m.items, 1)

\* init?.body as the wrapper sees it
NoBody == [kind |-> "absent", json |-> EmptyObject]
NonStringBody == [kind |-> "nonstring", json |-> EmptyObject]   \* a Buffer, a stream
GarbageBody == [kind |-> "garbage", json |-> EmptyObject]       \* a string that is not JSON
JsonBody(v) == [kind |-> "json", json |-> v]

\* lines 147-158: body, model and streaming after the try block
ParseRequest(raw) ==
    IF raw.kind # "json"
        THEN [body |-> EmptyObject, model |-> "unknown", streaming |-> FALSE]
    ELSE IF raw.json.tag = "null"                            \* body.model throws, caught
        THEN [body |-> JsonNull, model |-> "unknown", streaming |-> FALSE]
    ELSE IF raw.json.tag = "other"
        THEN [body |-> JsonOther, model |-> "unknown", streaming |-> FALSE]
    ELSE [body |-> raw.json,
          model |-> IF raw.json.model = "" THEN "unknown" ELSE raw.json.model,
          streaming |-> raw.json.stream]

ANTHROPIC_URL == "https://api.anthropic.com/v1/messages"
OTHER_PATH_URL == "https://api.anthropic.com/v1/models"
OTHER_HOST_URL == "https://example.com/v1/messages"

\* url.includes(ANTHROPIC_HOST) && url.includes(MESSAGES_PATH)
IsCompletionUrl(url) == url = ANTHROPIC_URL

----------------------------------------------------------------------------
(* Event streams and parseSSEUsage *)

(* An event text is a sequence of tokens: "\n", " ", the five characters   *)
(* "data:", the digits, "," and the pieces of a JSON payload:              *)
(*   "ms"  {"type":"message_start","message":{"usage":{"input_tokens":     *)
(*         followed by one to three numbers (input_tokens,                 *)
(*         cache_read_input_tokens, cache_creation_input_tokens) and "}"   *)
(*   "m0"  {"type":"message_start"  followed by "}" (no message.usage)     *)
(*   "md"  {"type":"message_delta","usage":{"output_tokens":               *)
(*         followed by one number and "}"                                  *)
(*   "ot"  {"type":"ping"  followed by "}"                                 *)
(*   "x"   text that is not JSON                                           *)
Digits == {"0", "1", "2"}
Heads == {"ms", "m0", "md", "ot"}

NoUsage == [inputTokens |-> 0, outputTokens |-> 0, cacheRead |-> 0, cacheWrite |-> 0]

\* s.split(sep)
RECURSIVE SplitOn(_, _)
SplitOn(s, sep) ==
    IF \A i \in 1..Len(s) : s[i] # sep THEN <<s>>
    ELSE LET k == CHOOSE i \in 1..Len(s) : s[i] = sep /\ \A j \in 1..(i - 1) : s[j] # sep
         IN  <<SubSeq(s, 1, k - 1)>> \o SplitOn(SubSeq(s, k + 1, Len(s)), sep)

\* line.trim()
RECURSIVE Trim(_)
Trim(s) ==
    IF s = <<>> THEN s
    ELSE IF Head(s) = " " THEN Trim(Tail(s))
    ELSE IF s[Len(s)] = " " THEN Trim(SubSeq(s, 1, Len(s) - 1))
    ELSE s

\* trimmed.startsWith('data: ')
StartsWithData(s) == Len(s) >= 2 /\ s[1] = "data:" /\ s[2] = " "

RECURSIVE Without(_, _)
Without(s, c) ==
    IF s = <<>> THEN s
    ELSE IF Head(s) = c THEN Without(Tail(s), c)
    ELSE <<Head(s)>> \o Without(Tail(s), c)

DigitValue(d) == CASE d = "0" -> 0 [] d = "1" -> 1 [] d = "2" -> 2

RECURSIVE Decimal(_)
Decimal(ds) == IF ds = <<>> THEN 0
               ELSE 10 * Decimal(SubSeq(ds, 1, Len(ds) - 1)) + DigitValue(ds[Len(ds)])

\* a JSON number: digits, no leading zero
IsNumber(ds) ==
    /\ ds # <<>>
    /\ \A i \in 1..Len(ds) : ds[i] \in Digits
    /\ (Len(ds) > 1 => ds[1] # "0")

\* white space inside a number is not JSON
SpaceInNumber(data) ==
    \E i, j \in 1..Len(data) :
        /\ i + 1 < j
        /\ data[i] \in Digits /\ data[j] \in Digits
        /\ \A k \in (i + 1)..(j - 1) : data[k] = " "

\* JSON.parse(data): ok, and what the parser reads of the object
JsonParse(data) ==
    LET d == Without(data, " ")
        fail == [ok |-> FALSE, type |-> "", nums |-> <<>>]
        nums == IF Len(d) = 2 THEN <<>> ELSE SplitOn(SubSeq(d, 2, Len(d) - 1), ",")
    IN  IF SpaceInNumber(data) \/ Len(d) < 2 \/ d[Len(d)] # "}" THEN fail
        ELSE IF d[1] \notin Heads THEN fail
        ELSE IF \E i \in 1..Len(nums) : ~IsNumber(nums[i]) THEN fail
        ELSE IF d[1] = "ms" /\ Len(nums) \in 1..3
            THEN [ok |-> TRUE, type |-> "message_start",
                  nums |-> [i \in 1..Len(nums) |-> Decimal(nums[i])]]
        ELSE IF d[1] = "m0" /\ Len(nums) = 0
            THEN [ok |-> TRUE, type |-> "message_start", nums |-> <<>>]
        ELSE IF d[1] = "md" /\ Len(nums) = 1
            THEN [ok |-> TRUE, type |-> "message_delta", nums |-> <<Decimal(nums[1])>>]
        ELSE IF d[1] = "ot" /\ Len(nums) = 0
            THEN [ok |-> TRUE, type |-> "ping", nums |-> <<>>]
        ELSE fail

\* u.field || 0
NumOr0(nums, i) == IF i <= Len(nums) THEN nums[i] ELSE 0

\* a faulty variant: the counts of an event are added to the counters
ParseLineAdding(line, acc) ==
    LET trimmed == Trim(line)
        data == SubSeq(trimmed, 3, Len(trimmed))
        obj == JsonParse(data)
    IN  IF ~StartsWithData(trimmed) THEN acc
        ELSE IF data = <<"[DONE]">> THEN acc
        ELSE IF ~obj.ok THEN acc
        ELSE IF obj.type = "message_start"
            THEN [acc EXCEPT !.inputTokens = @ + NumOr0(obj.nums, 1),
                             !.cacheRead = @ + NumOr0(obj.nums, 2),
                             !.cacheWrite = @ + NumOr0(obj.nums, 3)]
        ELSE IF obj.type = "message_delta"
            THEN [acc EXCEPT !.outputTokens = @ + NumOr0(obj.nums, 1)]
        ELSE acc

\* the body of the for loop of parseSSEUsage: the counters after one line
ParseLine(line, acc) ==
    LET trimmed == Trim(line)
        data == SubSeq(trimmed, 3, Len(trimmed))             \* trimmed.slice(6)
        obj == JsonParse(data)
    IN  IF ~StartsWithData(trimmed) THEN acc
        ELSE IF data = <<"[DONE]">> THEN acc
        ELSE IF ~obj.ok THEN acc                             \* catch {}
        ELSE IF obj.type = "message_start"
            THEN [acc EXCEPT !.inputTokens = NumOr0(obj.nums, 1),
                             !.cacheRead = NumOr0(obj.nums, 2),
                             !.cacheWrite = NumOr0(obj.nums, 3)]
        ELSE IF obj.type = "message_delta"
            THEN [acc EXCEPT !.outputTokens = NumOr0(obj.nums, 1)]
        ELSE acc

RECURSIVE ParseLines(_, _, _)
ParseLines(lines, k, acc) ==
    IF k > Len(lines) THEN acc
    ELSE ParseLines(lines, k + 1, ParseLine(lines[k], acc))

parseSSEUsage(text) == ParseLines(SplitOn(text, "\n"), 1, NoUsage)

\* a faulty variant: chunks joined with a line break, as if each chunk were a whole event
RECURSIVE BufferJoinLines(_)
BufferJoinLines(chunks) ==
    IF chunks = <<>> THEN <<>>
    ELSE IF Len(chunks) = 1 THEN chunks[1]
    ELSE chunks[1] \o <<"\n">> \o BufferJoinLines(Tail(chunks))

\* Buffer.concat(chunks.map(c => Buffer.from(c))).toString('utf-8')
RECURSIVE BufferConcat(_)
BufferConcat(chunks) ==
    IF chunks = <<>> THEN <<>>
    ELSE chunks[1] \o BufferConcat(Tail(chunks))

----------------------------------------------------------------------------
(* The record sink: calls.jsonl, rotateIfNeeded, appendLog *)

(* A file is [exists, pre, lines]: pre is the byte count of the content it *)
(* held when the model starts (lines of earlier runs, not tracked one by   *)
(* one and older than any window), lines are the records appended since.   *)
NoFile == [exists |-> FALSE, pre |-> 0, lines |-> <<>>]
OldContent(n) == [exists |-> TRUE, pre |-> n, lines |-> <<>>]

\* the call record of lines 183-193 and 213-223; call is not a field of the
\* written line: it names the invocation that wrote it
Entry(call, ts, model, ctx, preview, u, cost, stream) ==
    [call |-> call, ts |-> ts, model |-> model, ctx |-> ctx, preview |-> preview,
     input_tokens |-> u.inputTokens, output_tokens |-> u.outputTokens,
     cache_read |-> u.cacheRead, cache_write |-> u.cacheWrite,
     cost |-> cost, latency_ms |-> 0, stream |-> stream]

\* bytes of JSON.stringify(entry) + '\n': the keys and punctuation of a record
\* take about 190 bytes, the two free strings their length
LineBytes(entry) == 190 + entry.ctx.len + entry.preview.len

RECURSIVE SumBytes(_)
SumBytes(lines) == IF lines = <<>> THEN 0
                   ELSE LineBytes(Head(lines)) + SumBytes(Tail(lines))

\* statSync(LOG_FILE).size
FileSize(f) == f.pre + SumBytes(f.lines)

\* existsSync(LOG_FILE) && statSync(LOG_FILE).size > MAX_FILE_SIZE
NeedsRotation(f) == f.exists /\ FileSize(f) > MAX_FILE_SIZE

\* a faulty variant: the rotated log is deleted instead of renamed
rotateDropping(dir, renameOk) ==
    IF NeedsRotation(dir.log) /\ renameOk
    THEN [log |-> NoFile, old |-> dir.old]
    ELSE dir

\* renameOk: whether statSync and renameSync succeed; a failure is caught
rotateIfNeeded(dir, renameOk) ==
    IF NeedsRotation(dir.log) /\ renameOk
    THEN [log |-> NoFile, old |-> dir.log]      \* rename replaces an earlier .old
    ELSE dir

\* a faulty variant: the line is written twice
appendLogTwice(dir, entry, renameOk, writeOk) ==
    LET d == rotateIfNeeded(dir, renameOk)
    IN  IF writeOk
        THEN [d EXCEPT !.log = [exists |-> TRUE, pre |-> d.log.pre,
                                lines |-> d.log.lines \o <<entry, entry>>]]
        ELSE d

\* writeFileSync(LOG_FILE, line, { flag: 'a' }); writeOk: whether it succeeds
appendLog(dir, entry, renameOk, writeOk) ==
    LET d == rotateIfNeeded(dir, renameOk)
    IN  IF writeOk
        THEN [d EXCEPT !.log = [exists |-> TRUE, pre |-> d.log.pre,
                                lines |-> Append(d.log.lines, entry)]]
        ELSE d

\* whether a file operation of appendLog(entry) fails in dir
AppendFails(dir, renameOk, writeOk) ==
    ~writeOk \/ (NeedsRotation(dir.log) /\ ~renameOk)

----------------------------------------------------------------------------
(* The report loader *)

SecondsPerDay == 86400

\* Math.floor((Date.now() - days * 86400000) / 1000), the clock in seconds
sinceTs(now, days) == now - days * SecondsPerDay

RECURSIVE FilterSince(_, _)
FilterSince(lines, cutoff) ==
    IF lines = <<>> THEN <<>>
    ELSE IF Head(lines).ts >= cutoff
         THEN <<Head(lines)>> \o FilterSince(Tail(lines), cutoff)
         ELSE FilterSince(Tail(lines), cutoff)

loadCalls(dir, now, days) ==
    IF ~dir.log.exists THEN <<>>
    ELSE FilterSince(dir.log.lines, sinceTs(now, days))

----------------------------------------------------------------------------
(* The report: strings, normalizeContext *)

(* On the report side a string is the sequence of its characters, so that   *)
(* lower-casing, the replacements of normalizeContext and includes() work   *)
(* on it as in the code. The em dash and the en dash are the characters     *)
(* "U+2014" and "U+2013". A Cyrillic phrase that normalizeContext searches  *)
(* for is written as one character of its own ("ru:..."); no text of the    *)
(* model holds a part of one.                                               *)
UpperLetters ==
    <<"A", "B", "C", "D", "E", "F", "G", "H", "I", "J", "K", "L", "M", "N",
      "O", "P", "Q", "R", "S", "T", "U", "V", "W", "X", "Y", "Z">>
LowerLetters ==
    <<"a", "b", "c", "d", "e", "f", "g", "h", "i", "j", "k", "l", "m", "n",
      "o", "p", "q", "r", "s", "t", "u", "v", "w", "x", "y", "z">>
DigitChars == {"0", "1", "2", "3", "4", "5", "6", "7", "8", "9"}

\* \w, \s and [\u2014\u2013-] of the regular expressions of lines 315-317
WordChars ==
    {UpperLetters[i] : i \in 1..26} \cup {LowerLetters[i] : i \in 1..26}
    \cup DigitChars \cup {"_"}
SpaceChars == {" ", "\t"}
DashChars == {"U+2014", "U+2013", "-"}

\* s.toLowerCase()
toLowerCase(s) ==
    [i \in 1..Len(s) |->
        IF \E k \in 1..26 : UpperLetters[k] = s[i]
        THEN LowerLetters[CHOOSE k \in 1..26 : UpperLetters[k] = s[i]]
        ELSE s[i]]

\* s.startsWith(p), s.includes(p), s.slice(0, n), s.slice(n)
startsWith(s, p) == Len(s) >= Len(p) /\ SubSeq(s, 1, Len(p)) = p
includes(s, p) == \E i \in 0..(Len(s) - Len(p)) : SubSeq(s, i + 1, i + Len(p)) = p
SliceTo(s, n) == SubSeq(s, 1, Min(Len(s), n))
SliceFrom(s, n) == SubSeq(s, n + 1, Len(s))

RECURSIVE DropWhile(_, _)
DropWhile(s, set) ==
    IF s = <<>> \/ Head(s) \notin set THEN s ELSE DropWhile(Tail(s), set)

\* s.replace(/[set]+/g, r): every maximal run of characters of set becomes r
RECURSIVE ReplaceRuns(_, _, _)
ReplaceRuns(s, set, r) ==
    IF s = <<>> THEN <<>>
    ELSE IF Head(s) \in set
         THEN r \o ReplaceRuns(DropWhile(Tail(s), set), set, r)
         ELSE <<Head(s)>> \o ReplaceRuns(Tail(s), set, r)

\* s.replace(/[^set]/g, '')
RECURSIVE Keep(_, _)
Keep(s, set) ==
    IF s = <<>> THEN <<>>
    ELSE IF Head(s) \in set THEN <<Head(s)>> \o Keep(Tail(s), set)
    ELSE Keep(Tail(s), set)

\* s.replace(/^-|-$/g, '')
StripDashEnds(s) ==
    LET t == IF s # <<>> /\ Head(s) = "-" THEN Tail(s) ELSE s
    IN  IF t # <<>> /\ t[Len(t)] = "-" THEN SubSeq(t, 1, Len(t) - 1) ELSE t

CronLabelLength == 40      \* .slice(0, 40)

CronPrefix == <<"c", "r", "o", "n", ":">>
SystemPrefix == <<"s", "y", "s", "t", "e", "m", ":">>
unknown == <<"u", "n", "k", "n", "o", "w", "n">>
compaction == <<"c", "o", "m", "p", "a", "c", "t", "i", "o", "n">>
session == <<"s", "e", "s", "s", "i", "o", "n">>

\* lines 313-320, applied to ctx.slice(5)
CronLabel(name) ==
    SliceTo(StripDashEnds(ReplaceRuns(ReplaceRuns(
        Keep(ReplaceRuns(toLowerCase(name), DashChars, <<"-">>),
             WordChars \cup SpaceChars \cup {"-"}),
        SpaceChars, <<"-">>), {"-"}, <<"-">>)), CronLabelLength)

\* lines 328-339 in order: the phrases looked for in the lower-cased text, and
\* the label returned when one is found
ContextRules ==
    <<
       [pats |-> {<<"c", "o", "m", "p", "a", "c", "t", "e", "d", " ", "i", "n", "t", "o", " ", "t", "h", "e", " ", "f", "o", "l", "l", "o", "w", "i", "n", "g", " ", "s", "u", "m", "m", "a", "r", "y">>},
        label |-> <<"c", "o", "m", "p", "a", "c", "t", "i", "o", "n">>],
       [pats |-> {<<"j", "o", "b", "s", "-", "m", "o", "n", "i", "t", "o", "r">>,
               <<"ru:vakansij">>},
        label |-> <<"j", "o", "b", "s", "-", "m", "o", "n", "i", "t", "o", "r">>],
       [pats |-> {<<"r", "e", "d", "d", "i", "t", "-", "m", "o", "n", "i", "t", "o", "r">>,
               <<"ru:podborku interesnyh postov">>},
        label |-> <<"r", "e", "d", "d", "i", "t", "-", "m", "o", "n", "i", "t", "o", "r">>],
       [pats |-> {<<"r", "e", "d", "d", "i", "t", "-", "s", "e", "o", "-", "d", "i", "g", "e", "s", "t">>,
               <<"r", "/", "s", "e", "o", " ", "d", "i", "g", "e", "s", "t">>},
        label |-> <<"r", "e", "d", "d", "i", "t", "-", "s", "e", "o", "-", "d", "i", "g", "e", "s", "t">>],
       [pats |-> {<<"p", "r", "o", "d", "u", "c", "t", " ", "h", "u", "n", "t">>,
               <<"p", "r", "o", "d", "u", "c", "t", "h", "u", "n", "t">>},
        label |-> <<"p", "r", "o", "d", "u", "c", "t", "-", "h", "u", "n", "t">>],
       [pats |-> {<<"m", "o", "l", "t", "b", "o", "o", "k">>},
        label |-> <<"m", "o", "l", "t", "b", "o", "o", "k">>],
       [pats |-> {<<"g", "m", "a", "i", "l">>,
               <<"ru:vhodyashchie pisma">>},
        label |-> <<"g", "m", "a", "i", "l", "-", "d", "i", "g", "e", "s", "t">>],
       [pats |-> {<<"f", "l", "a", "s", "h", "c", "a", "r", "d">>,
               <<"m", "o", "r", "n", "i", "n", "g", " ", "g", "r", "e", "e", "k">>},
        label |-> <<"g", "r", "e", "e", "k", "-", "f", "l", "a", "s", "h", "c", "a", "r", "d", "s">>],
       [pats |-> {<<"ru:grecheskogo uroka">>,
               <<"g", "r", "e", "e", "k", " ", "l", "e", "s", "s", "o", "n">>},
        label |-> <<"g", "r", "e", "e", "k", "-", "l", "e", "s", "s", "o", "n">>],
       [pats |-> {<<"w", "e", "e", "k", "l", "y", " ", "g", "r", "e", "e", "k", " ", "t", "e", "s", "t">>},
        label |-> <<"g", "r", "e", "e", "k", "-", "t", "e", "s", "t">>],
       [pats |-> {<<"s", "e", "o", " ", "a", "n", "a", "l", "y", "s", "i", "s">>,
               <<"s", "e", "o", " ", "d", "e", "e", "p", " ", "d", "i", "v", "e">>},
        label |-> <<"s", "e", "o", "-", "a", "n", "a", "l", "y", "s", "i", "s">>],
       [pats |-> {<<"m", "e", "m", "o", "r", "y", " ", "m", "a", "i", "n", "t", "e", "n", "a", "n", "c", "e">>},
        label |-> <<"m", "e", "m", "o", "r", "y", "-", "m", "a", "i", "n", "t", "e", "n", "a", "n", "c", "e">>]
    >>

normalizeContext(ctx) ==
    LET lower == toLowerCase(ctx)
        Hit(k) == \E p \in ContextRules[k].pats : includes(lower, p)
    IN  IF ctx = <<>> THEN unknown                           \* if (!ctx)
        ELSE IF startsWith(ctx, CronPrefix) THEN CronLabel(SliceFrom(ctx, 5))
        ELSE IF ctx = compaction THEN compaction
        ELSE IF startsWith(ctx, SystemPrefix) THEN session
        ELSE IF \E k \in 1..Len(ContextRules) : Hit(k)
             THEN ContextRules[CHOOSE k \in 1..Len(ContextRules) :
                                   Hit(k) /\ \A j \in 1..(k - 1) : ~Hit(j)].label
        ELSE session

----------------------------------------------------------------------------
(* The report: groupByContext and the commands *)

AlertRows == 30             \* expensive.slice(0, 30)
TopLimit == 15              \* --limit, 15 when not given
TopSpenders == 5            \* sorted.slice(0, 5)
CompactionLimit == 10       \* compactionCalls.length > 10
DefaultThreshold == 100000  \* --threshold, 0.10 USD when not given, in micro-dollars
HighCost == 500000          \* (c.cost || 0) > 0.50, in micro-dollars
CompactionShare == 70       \* compactionCost * 0.7, in units of 1e-8 USD per micro-dollar
HaikuShare == 8             \* sonnetCost * 0.08, in units of 1e-8 USD per micro-dollar

CHEAP_MODELS == {"claude-haiku-4-5-20251001"}

SUMMARIZATION_PATTERNS ==
    {<<"g", "m", "a", "i", "l">>,
     <<"r", "e", "d", "d", "i", "t">>,
     <<"m", "o", "l", "t", "b", "o", "o", "k">>,
     <<"p", "r", "o", "d", "u", "c", "t", "-", "h", "u", "n", "t">>,
     <<"p", "r", "o", "d", "u", "c", "t", "h", "u", "n", "t">>,
     <<"m", "o", "n", "i", "t", "o", "r">>,
     <<"d", "i", "g", "e", "s", "t">>,
     <<"f", "l", "a", "s", "h", "c", "a", "r", "d">>,
     <<"h", "e", "a", "r", "t", "b", "e", "a", "t">>}

\* a record read back from the log, with the fields these commands compute
\* on; a call is known by its position in the array that loadCalls returned
LoggedCall(ctx, model, cost) == [ctx |-> ctx, model |-> model, cost |-> cost]

RECURSIVE SumCost(_, _)
\* reduce((s, c) => s + (c.cost || 0), 0) over the calls at positions ks
SumCost(cs, ks) ==
    IF ks = <<>> THEN 0 ELSE cs[Head(ks)].cost + SumCost(cs, Tail(ks))

\* the positions of the calls that satisfy Test, in order: calls.filter(...)
Positions(cs, Test(_)) ==
    SelectSeq([k \in 1..Len(cs) |-> k], LAMBDA k : Test(cs[k]))

DigitOrder == <<"0", "1", "2", "3", "4", "5", "6", "7", "8", "9">>
\* 2^32 - 2, the largest array index
MaxArrayIndex == <<"4", "2", "9", "4", "9", "6", "7", "2", "9", "4">>

DigitRank(c) == CHOOSE n \in 1..10 : DigitOrder[n] = c

\* a < b for two decimal numerals without leading zeros
RECURSIVE NumLess(_, _)
NumLess(a, b) ==
    IF Len(a) # Len(b) THEN Len(a) < Len(b)
    ELSE IF a = <<>> THEN FALSE
    ELSE IF Head(a) # Head(b) THEN DigitRank(Head(a)) < DigitRank(Head(b))
    ELSE NumLess(Tail(a), Tail(b))

\* a property key that is an array index: a canonical numeral up to 2^32 - 2
IsArrayIndex(key) ==
    /\ key # <<>>
    /\ \A i \in 1..Len(key) : key[i] \in DigitChars
    /\ (Len(key) > 1 => key[1] # "0")
    /\ ~NumLess(MaxArrayIndex, key)

\* the keys that every object literal inherits from Object.prototype and that
\* normalizeContext, which lower-cases, can return
InheritedKeys ==
    {<<"c", "o", "n", "s", "t", "r", "u", "c", "t", "o", "r">>,
     <<"_", "_", "p", "r", "o", "t", "o", "_", "_">>}

\* groups[ctx] = { calls: [], cost: 0, ... } and the lines 350-352 for call k
\* (the token totals and the per-model tally are left out: no command of the
\* model prints them)
RECURSIVE GroupLoop(_, _, _)
GroupLoop(cs, k, groups) ==
    IF k > Len(cs) THEN [threw |-> FALSE, groups |-> groups]
    ELSE LET ctx == normalizeContext(cs[k].ctx)
             Own(j) == groups[j].ctx = ctx
         IN  IF ctx \in InheritedKeys
             \* groups[ctx] is the inherited value: truthy, and g.calls is
             \* undefined, so g.calls.push throws a TypeError
             THEN [threw |-> TRUE, groups |-> groups]
             ELSE IF \E j \in 1..Len(groups) : Own(j)
             THEN GroupLoop(cs, k + 1,
                      [groups EXCEPT ![CHOOSE j \in 1..Len(groups) : Own(j)] =
                          [@ EXCEPT !.calls = Append(@, k), !.cost = @ + cs[k].cost]])
             ELSE GroupLoop(cs, k + 1,
                      Append(groups, [ctx |-> ctx, calls |-> <<k>>, cost |-> cs[k].cost]))

\* the groups in the order in which their keys were created
groupByContext(cs) == GroupLoop(cs, 1, <<>>)

RECURSIVE InsertByIndex(_, _)
InsertByIndex(sorted, g) ==
    IF sorted = <<>> THEN <<g>>
    ELSE IF NumLess(Head(sorted).ctx, g.ctx)
         THEN <<Head(sorted)>> \o InsertByIndex(Tail(sorted), g)
         ELSE <<g>> \o sorted

RECURSIVE SortByIndex(_)
SortByIndex(gs) ==
    IF gs = <<>> THEN <<>>
    ELSE InsertByIndex(SortByIndex(SubSeq(gs, 1, Len(gs) - 1)), gs[Len(gs)])

\* Object.entries(groups): the keys that are array indices first, in ascending
\* numeric order, then the other keys in the order of their creation
ObjectEntries(groups) ==
    SortByIndex(SelectSeq(groups, LAMBDA g : IsArrayIndex(g.ctx)))
    \o SelectSeq(groups, LAMBDA g : ~IsArrayIndex(g.ctx))

RECURSIVE InsertByCost(_, _)
InsertByCost(sorted, x) ==
    IF sorted = <<>> THEN <<x>>
    ELSE IF Head(sorted).cost >= x.cost
         THEN <<Head(sorted)>> \o InsertByCost(Tail(sorted), x)
         ELSE <<x>> \o sorted

\* .sort((a, b) => b.cost - a.cost): descending, and stable
RECURSIVE SortByCost(_)
SortByCost(xs) ==
    IF xs = <<>> THEN <<>>
    ELSE InsertByCost(SortByCost(SubSeq(xs, 1, Len(xs) - 1)), xs[Len(xs)])

\* what a command printed: threw (it ended on an uncaught error and printed
\* nothing), the rows of a listing, the count of its header, the issues and
\* the estimated savings of the weekly report (in units of 1e-8 USD)
Output(rows, count, issues, savings) ==
    [threw |-> FALSE, rows |-> rows, count |-> count, issues |-> issues, savings |-> savings]
NoOutput == Output(<<>>, 0, <<>>, 0)
Threw == [NoOutput EXCEPT !.threw = TRUE]

Issue(kind, ctx, n, cost, savings) ==
    [kind |-> kind, ctx |-> ctx, n |-> n, cost |-> cost, savings |-> savings]

\* the rows of a listing of calls: position and cost
Rows(cs, ks) == [i \in 1..Len(ks) |-> [k |-> ks[i], cost |-> cs[ks[i]].cost]]

\* a faulty variant: a call that costs exactly the threshold is left out
cmdAlertsStrict(cs, threshold) ==
    LET expensive ==
            SortByCost(Rows(cs, Positions(cs, LAMBDA c : c.cost > threshold)))
    IN  Output(SliceTo(expensive, AlertRows), Len(expensive), <<>>, 0)

\* lines 453-464; the threshold in micro-dollars
cmdAlerts(cs, threshold) ==
    LET expensive ==
            SortByCost(Rows(cs, Positions(cs, LAMBDA c : c.cost >= threshold)))
    IN  Output(SliceTo(expensive, AlertRows), Len(expensive), <<>>, 0)

\* lines 399-417: a row per group, the count is that of the groups
cmdTop(cs, limit) ==
    LET gr == groupByContext(cs)
        sorted == SortByCost(ObjectEntries(gr.groups))
    IN  IF cs = <<>> THEN NoOutput
        ELSE IF gr.threw THEN Threw
        ELSE Output(SliceTo(sorted, limit), Len(sorted), <<>>, 0)

\* a faulty variant: the issue is raised from CompactionLimit calls on
CompactionRuleAtLimit(cs) ==
    LET ks == Positions(cs, LAMBDA c : normalizeContext(c.ctx) = compaction)
        compactionCost == SumCost(cs, ks)
    IN  [fires |-> Len(ks) >= CompactionLimit,
         issue |-> Issue("compaction", compaction, Len(ks), compactionCost,
                         CompactionShare * compactionCost)]

\* lines 550-556: savings in units of 1e-8 USD
CompactionRule(cs) ==
    LET ks == Positions(cs, LAMBDA c : normalizeContext(c.ctx) = compaction)
        compactionCost == SumCost(cs, ks)
    IN  [fires |-> Len(ks) > CompactionLimit,
         issue |-> Issue("compaction", compaction, Len(ks), compactionCost,
                         CompactionShare * compactionCost)]

\* a faulty variant: the cheap calls of the group are counted with the others
MisuseRuleAllCalls(cs, g) ==
    LET isSummarization == \E p \in SUMMARIZATION_PATTERNS : includes(g.ctx, p)
        sonnetCost == SumCost(cs, g.calls)
    IN  [fires |-> isSummarization /\ Len(g.calls) > 0,
         issue |-> Issue("misuse", g.ctx, Len(g.calls), sonnetCost,
                         100 * sonnetCost - HaikuShare * sonnetCost)]

\* lines 559-571 for one group: savings = sonnetCost - sonnetCost * 0.08
MisuseRule(cs, g) ==
    LET isSummarization == \E p \in SUMMARIZATION_PATTERNS : includes(g.ctx, p)
        sonnetCalls == SelectSeq(g.calls, LAMBDA k : cs[k].model \notin CHEAP_MODELS)
        sonnetCost == SumCost(cs, sonnetCalls)
    IN  [fires |-> isSummarization /\ Len(sonnetCalls) > 0,
         issue |-> Issue("misuse", g.ctx, Len(sonnetCalls), sonnetCost,
                         100 * sonnetCost - HaikuShare * sonnetCost)]

\* lines 573-578
ExpensiveRule(cs) ==
    LET ks == Positions(cs, LAMBDA c : c.cost > HighCost)
    IN  [fires |-> Len(ks) > 0,
         issue |-> Issue("expensive", <<>>, Len(ks), SumCost(cs, ks), 0)]

RECURSIVE SumSavings(_)
SumSavings(issues) ==
    IF issues = <<>> THEN 0 ELSE Head(issues).savings + SumSavings(Tail(issues))

\* lines 511-598: the top spenders, the issues in the order they are pushed, and
\* estimatedSavings; the count is that of the calls
cmdReport(cs) ==
    LET gr == groupByContext(cs)
        sorted == SortByCost(ObjectEntries(gr.groups))
        comp == CompactionRule(cs)
        misuse == SelectSeq([i \in 1..Len(sorted) |-> MisuseRule(cs, sorted[i])],
                            LAMBDA r : r.fires)
        high == ExpensiveRule(cs)
        issues == (IF comp.fires THEN <<comp.issue>> ELSE <<>>)
                  \o [i \in 1..Len(misuse) |-> misuse[i].issue]
                  \o (IF high.fires THEN <<high.issue>> ELSE <<>>)
    IN  IF cs = <<>> THEN NoOutput
        ELSE IF gr.threw THEN Threw
        ELSE Output(SliceTo(sorted, TopSpenders), Len(cs), issues, SumSavings(issues))

----------------------------------------------------------------------------
(* The patched fetch *)

CallIds == 1..MaxCalls

Args(url, body) == [url |-> url, body |-> body]
NoArgs == Args("", NoBody)

\* objects have an identity: who made them and in which invocation
Obj(by, call) == [by |-> by, call |-> call]
NoObj == Obj("none", 0)

\* a Response: its identity, response.ok, whether response.body is a stream
Response(obj, ok, hasBody) == [obj |-> obj, ok |-> ok, hasBody |-> hasBody]
NoResponse == Response(NoObj, FALSE, FALSE)

\* how an invocation ended: the value returned or the error it rejected with
\* (for a response, ok is its response.ok)
Outcome(kind, obj, ok) == [kind |-> kind, obj |-> obj, ok |-> ok]
Pending == Outcome("pending", NoObj, FALSE)
Rejection(obj) == Outcome("error", obj, FALSE)
Resolution(resp) == Outcome("response", resp.obj, resp.ok)

IdleFrame ==
    [pc |-> "idle",             \* idle, fetching, returned, rejected
     args |-> NoArgs,           \* (input, init) as the caller passed them, kept
                                \* while originalFetch is in flight
     matched |-> FALSE,
     model |-> "unknown", streaming |-> FALSE,
     ctx |-> UnknownLabel, preview |-> Label("", NoText),
     origCalls |-> 0,           \* calls of originalFetch made by this invocation
     origArgs |-> NoArgs,       \* what originalFetch was called with
     resp |-> NoResponse,       \* what originalFetch resolved with
     origOutcome |-> Pending,   \* how originalFetch ended
     outcome |-> Pending,       \* how the wrapper ended
     task |-> "none",           \* none, reading, json, done
     stream |-> <<>>,           \* the chunks the log stream will deliver
     chunks |-> <<>>,           \* the chunks the reader has pushed, until it ends
     failed |-> FALSE,          \* something failed inside the detached task
     escaped |-> FALSE,         \* an error left the detached task uncaught
     writes |-> 0]              \* records this invocation appended

UserMsg(t) == Msg("user", StringContent(t))

PlainRequest ==
    JsonObject("claude-haiku-4-5-20251001", FALSE, NoUserId,
               MsgList(<<Msg("assistant", StringContent(HelloText)), UserMsg(HelloText)>>),
               NoText)
StreamRequest ==
    JsonObject("claude-sonnet-4-5-20250929", TRUE, NoUserId,
               MsgList(<<UserMsg(CronText)>>), Text("You are a helpful agent", 23))
NotAListRequest == [PlainRequest EXCEPT !.messages = MsgObject]
NullElementRequest ==
    [StreamRequest EXCEPT !.messages = MsgList(<<NullMsg, UserMsg(HelloText)>>)]
\* extractContext returns the identifier, extractPreview reaches the null
NullWithUserIdRequest ==
    [PlainRequest EXCEPT !.user_id = UserId(Text("agent-7", 7)),
                         !.messages = MsgList(<<NullMsg, UserMsg(HelloText)>>)]

\* the request bodies an invocation is given
RequestBodies ==
    {NoBody, NonStringBody, GarbageBody, JsonBody(JsonNull), JsonBody(JsonOther),
     JsonBody(PlainRequest), JsonBody(StreamRequest), JsonBody(NotAListRequest),
     JsonBody(NullElementRequest), JsonBody(NullWithUserIdRequest)}

Requests ==
    {Args(ANTHROPIC_URL, b) : b \in RequestBodies}
    \cup {Args(OTHER_HOST_URL, JsonBody(StreamRequest)), Args(OTHER_PATH_URL, NoBody)}

\* the bodies of streamed responses, as the chunks the network delivers
EventStreams ==
    { <<>>,
      << <<"data:", " ", "ms", "1", "}", "\n">>, <<"data:", " ", "md", "2", "}", "\n">> >>,
      << <<"data:", " ", "ms", "2", ",", "1">>, <<",", "1", "}", "\n", "data:", " ", "[DONE]">> >>,
      << <<"data:", " ", "m0", "}", "\n", "x", "\n">> >> }

Usage(i, o, cr, cw) ==
    [inputTokens |-> i, outputTokens |-> o, cacheRead |-> cr, cacheWrite |-> cw]

\* the JSON body of a non-streaming response: data.model ("" when absent) and
\* data.usage; a count that is absent reads as 0 (u.input_tokens || 0)
JsonData(model, hasUsage, u) ==
    [tag |-> "object", model |-> model, hasUsage |-> hasUsage, usage |-> u]
JsonDataNull == [JsonData("", FALSE, NoUsage) EXCEPT !.tag = "null"]

ResponseBodies ==
    {JsonDataNull,
     JsonData("", FALSE, NoUsage),                           \* an error-shaped body
     JsonData("claude-opus-4-20250514", TRUE, NoUsage),
     JsonData("", TRUE, Usage(1, 2, 1, 0))}

\* a faulty variant: the cost is left unrounded (in units of 1e-8 USD taken as micro-dollars)
CostFieldUnrounded(model, u) ==
    estimateCost(model, u.inputTokens, u.outputTokens, u.cacheRead, u.cacheWrite)

\* Math.round(estimateCost(...) * 1e6) / 1e6, in micro-dollars
CostField(model, u) ==
    RoundMicro(estimateCost(model, u.inputTokens, u.outputTokens, u.cacheRead, u.cacheWrite))

\* the .then callback of clone.json(), lines 206-224: whether it appends, and what
OnJson(call, now, data, model, ctx, preview) ==
    IF data.tag # "object" \/ ~data.hasUsage                 \* if (!u) return
    THEN [write |-> FALSE, entry |-> Entry(call, now, model, ctx, preview, NoUsage, 0, FALSE)]
    ELSE LET m == IF data.model = "" THEN model ELSE data.model   \* data.model || model
         IN  [write |-> TRUE,
              entry |-> Entry(call, now, m, ctx, preview, data.usage,
                              CostField(m, data.usage), FALSE)]

\* lines 180-181: the counters the reader resolves from the chunks it pushed
ResolveUsage(chunks) == parseSSEUsage(BufferConcat(chunks))

\* lines 180-194, once the reader is done: whether it appends, and what
OnStreamEnd(call, now, chunks, model, ctx, preview) ==
    LET u == ResolveUsage(chunks)
    IN  [write |-> u.inputTokens > 0 \/ u.outputTokens > 0,
         entry |-> Entry(call, now, model, ctx, preview, u, CostField(model, u), TRUE)]

\* lines 146-161: what the wrapper derives from the request before the call
Inspect(args) ==
    LET p == ParseRequest(args.body)
        c == extractContext(p.body)
        v == extractPreview(p.body)
    IN  [threw |-> c.threw \/ v.threw, model |-> p.model, streaming |-> p.streaming,
         ctx |-> c.val, preview |-> v.val]

\* a faulty variant: init is not passed on
ForwardUrlOnly(args) == Args(args.url, NoBody)

\* originalFetch.call(this, input, init)
ForwardArgs(args) == args

\* a faulty variant: response.ok is not tested on the non-streaming side
BranchIgnoringOk(streaming, resp) ==
    IF streaming /\ resp.ok /\ resp.hasBody THEN "stream" ELSE "json"

\* lines 167 and 204: which observation the wrapper starts
Branch(streaming, resp) ==
    IF streaming /\ resp.ok /\ resp.hasBody THEN "stream"
    ELSE IF resp.ok THEN "json"
    ELSE "none"

\* a faulty variant: a failure inside the detached task is left to reject its promise
Uncaught(failed) == failed

\* catch {} at line 195 and .catch(() => {}) at line 224: whether a failure
\* inside the detached task leaves it
DetachedCatch(failed) == FALSE

\* a faulty variant: the wrapper awaits the reader of the log stream before it
\* returns
AwaitTask(task) == IF task = "reading" THEN "awaiting" ELSE "returned"

\* `})();` at line 196 and `clone.json().then(...).catch(...);` at lines
\* 206-224: the promise of the task is dropped, not awaited; where the wrapper
\* is once the task is started
Detach(task) == "returned"

\* the state of the other parts of the model while the wrapper runs
SseIdle == [phase |-> "off", text |-> <<>>, pos |-> 0, chunks |-> <<>>, result |-> NoUsage]
RecIdle == [phase |-> "off", model |-> "unknown", data |-> JsonDataNull,
            out |-> OnJson(0, 0, JsonDataNull, "unknown", UnknownLabel, Label("", NoText))]
NoOp == [op |-> "none", before |-> [log |-> NoFile, old |-> NoFile],
         entry |-> Entry(0, 0, "unknown", UnknownLabel, Label("", NoText), NoUsage, 0, FALSE),
         renameOk |-> TRUE, writeOk |-> TRUE]
\* (the clock stands still while the wrapper specification runs: ts is rep.now)
RepIdle == [now |-> 0, appends |-> 0, written |-> <<>>, last |-> NoOp,
            days |-> DefaultDays, cutoff |-> 0, loaded |-> <<>>, phase |-> "idle"]

ClsIdle == [phase |-> "off", body |-> EmptyObject, out |-> NotFound]
CliIdle == [phase |-> "off", cmd |-> "none", calls |-> <<>>,
            threshold |-> DefaultThreshold, out |-> NoOutput]

\* globalThis.fetch(input, init) up to the await of line 163
Invoke(i) ==
    /\ calls[i].pc = "idle"
    /\ \A j \in 1..(i - 1) : calls[j].pc # "idle"
    /\ \E args \in Requests :
         LET in == Inspect(args)
         IN  calls' = [calls EXCEPT ![i] =
               IF ~IsCompletionUrl(args.url)
               THEN [@ EXCEPT !.pc = "fetching", !.args = args,
                              !.origCalls = @ + 1, !.origArgs = ForwardArgs(args)]
               ELSE IF in.threw
               THEN [@ EXCEPT !.pc = "rejected", !.matched = TRUE,
                              !.outcome = Rejection(Obj("hook", i))]
               ELSE [@ EXCEPT !.pc = "fetching", !.args = args, !.matched = TRUE,
                              !.model = in.model, !.streaming = in.streaming,
                              !.ctx = in.ctx, !.preview = in.preview,
                              !.origCalls = @ + 1, !.origArgs = ForwardArgs(args)]]
    /\ UNCHANGED <<fs, sse, rec, rep, cls, cli>>

\* originalFetch rejects: the await throws and the wrapper rejects with it
FetchReject(i) ==
    /\ calls[i].pc = "fetching"
    /\ calls' = [calls EXCEPT ![i].pc = "rejected",
                              ![i].args = NoArgs, ![i].origArgs = NoArgs,
                              ![i].origOutcome = Rejection(Obj("origin", i)),
                              ![i].outcome = Rejection(Obj("origin", i))]
    /\ UNCHANGED <<fs, sse, rec, rep, cls, cli>>

\* originalFetch resolves: lines 163-228 up to the return
FetchResolve(i) ==
    /\ calls[i].pc = "fetching"
    /\ \E ok \in BOOLEAN, hasBody \in BOOLEAN, stream \in EventStreams :
         LET resp == Response(Obj("origin", i), ok, hasBody)
             branch == Branch(calls[i].streaming, resp)
         IN  /\ (~calls[i].matched \/ branch # "stream") => stream = <<>>
             /\ calls' = [calls EXCEPT ![i] =
                  IF ~calls[i].matched
                  THEN [@ EXCEPT !.pc = "returned", !.args = NoArgs, !.origArgs = NoArgs,
                                 !.resp = resp, !.origOutcome = Resolution(resp),
                                 !.outcome = Resolution(resp)]
                  ELSE IF branch = "stream"
                  \* tee(), the detached reader, and a new Response around returnStream
                  THEN [@ EXCEPT !.pc = Detach("reading"), !.args = NoArgs, !.origArgs = NoArgs,
                                 !.resp = resp, !.origOutcome = Resolution(resp),
                                 !.task = "reading", !.stream = stream,
                                 !.outcome = Outcome("response", Obj("hook", i), resp.ok)]
                  ELSE IF branch = "json"
                  \* clone().json().then(...).catch(...)
                  THEN [@ EXCEPT !.pc = Detach("json"), !.args = NoArgs, !.origArgs = NoArgs,
                                 !.resp = resp, !.origOutcome = Resolution(resp),
                                 !.task = "json", !.outcome = Resolution(resp)]
                  ELSE [@ EXCEPT !.pc = "returned", !.args = NoArgs, !.origArgs = NoArgs,
                                 !.resp = resp, !.origOutcome = Resolution(resp),
                                 !.outcome = Resolution(resp)]]
    /\ UNCHANGED <<fs, sse, rec, rep, cls, cli>>

\* reader.read() resolves with a chunk: chunks.push(value)
ReadChunk(i) ==
    /\ calls[i].task = "reading"
    /\ Len(calls[i].chunks) < Len(calls[i].stream)
    /\ calls' = [calls EXCEPT ![i].chunks =
                    Append(@, calls[i].stream[Len(calls[i].chunks) + 1])]
    /\ UNCHANGED <<fs, sse, rec, rep, cls, cli>>

\* reader.read() resolves with done: parse, and append if a count is positive
ReadEnd(i) ==
    /\ calls[i].task = "reading"
    /\ Len(calls[i].chunks) = Len(calls[i].stream)
    /\ \E renameOk \in BOOLEAN, writeOk \in BOOLEAN :
         LET r == OnStreamEnd(i, rep.now, calls[i].chunks, calls[i].model,
                              calls[i].ctx, calls[i].preview)
         IN  /\ (~r.write => renameOk /\ writeOk)
             /\ fs' = IF r.write THEN appendLog(fs, r.entry, renameOk, writeOk) ELSE fs
             /\ calls' = [calls EXCEPT ![i].task = "done",
                              ![i].stream = <<>>, ![i].chunks = <<>>,
                              ![i].writes = IF r.write /\ writeOk THEN @ + 1 ELSE @,
                              ![i].failed = r.write /\ AppendFails(fs, renameOk, writeOk),
                              ![i].escaped =
                                  DetachedCatch(r.write /\ AppendFails(fs, renameOk, writeOk))]
    /\ UNCHANGED <<sse, rec, rep, cls, cli>>

\* reader.read() rejects (the connection breaks): caught at line 195
ReadError(i) ==
    /\ calls[i].task = "reading"
    /\ calls' = [calls EXCEPT ![i].task = "done", ![i].stream = <<>>, ![i].chunks = <<>>,
                              ![i].failed = TRUE, ![i].escaped = DetachedCatch(TRUE)]
    /\ UNCHANGED <<fs, sse, rec, rep, cls, cli>>

\* clone.json() resolves: the .then callback
JsonResolve(i) ==
    /\ calls[i].task = "json"
    /\ calls[i].resp.hasBody
    /\ \E data \in ResponseBodies, renameOk \in BOOLEAN, writeOk \in BOOLEAN :
         LET r == OnJson(i, rep.now, data, calls[i].model, calls[i].ctx, calls[i].preview)
         IN  /\ (~r.write => renameOk /\ writeOk)
             /\ fs' = IF r.write THEN appendLog(fs, r.entry, renameOk, writeOk) ELSE fs
             /\ calls' = [calls EXCEPT ![i].task = "done",
                              ![i].writes = IF r.write /\ writeOk THEN @ + 1 ELSE @,
                              ![i].failed = r.write /\ AppendFails(fs, renameOk, writeOk),
                              ![i].escaped =
                                  DetachedCatch(r.write /\ AppendFails(fs, renameOk, writeOk))]
    /\ UNCHANGED <<sse, rec, rep, cls, cli>>

\* clone.json() rejects (no body, or a body that is not JSON): .catch(() => {})
JsonReject(i) ==
    /\ calls[i].task = "json"
    /\ calls' = [calls EXCEPT ![i].task = "done", ![i].failed = TRUE,
                              ![i].escaped = DetachedCatch(TRUE)]
    /\ UNCHANGED <<fs, sse, rec, rep, cls, cli>>

\* the data directory when the process starts: no log yet, or a log of earlier
\* runs that is about to pass or has passed the rotation threshold
InitialDirs ==
    {[log |-> NoFile, old |-> NoFile],
     [log |-> OldContent(MAX_FILE_SIZE + 1), old |-> OldContent(7)]}

Init ==
    /\ calls = [i \in CallIds |-> IdleFrame]
    /\ fs \in InitialDirs
    /\ sse = SseIdle
    /\ rec = RecIdle
    /\ rep = RepIdle
    /\ cls = ClsIdle
    /\ cli = CliIdle

Next ==
    \E i \in CallIds :
        \/ Invoke(i)
        \/ FetchReject(i)
        \/ FetchResolve(i)
        \/ ReadChunk(i)
        \/ ReadEnd(i)
        \/ ReadError(i)
        \/ JsonResolve(i)
        \/ JsonReject(i)

Spec == Init /\ [][Next]_vars

----------------------------------------------------------------------------
(* The log-stream reader taken alone: one event text, cut into chunks *)

EventLines ==
    { <<"data:", " ", "ms", "1", "2", "}">>,
      <<"data:", " ", "ms", "2", ",", "1", "}">>,
      <<"data:", " ", "md", "2", "}">>,
      <<"data:", " ", "[DONE]">>,
      <<" ", "data:", " ", "md", "1", "}", " ">>,
      <<"data:", " ", "m0", "}">>,
      <<"md", "1", "}">> }

RECURSIVE JoinLines(_)
JoinLines(lines) ==
    IF lines = <<>> THEN <<>>
    ELSE IF Len(lines) = 1 THEN lines[1]
    ELSE lines[1] \o <<"\n">> \o JoinLines(Tail(lines))

EventTexts ==
    {JoinLines(ls) : ls \in UNION {[1..n -> EventLines] : n \in 1..MaxLines}}

InitSSE ==
    /\ calls = [i \in CallIds |-> IdleFrame]
    /\ fs = [log |-> NoFile, old |-> NoFile]
    /\ sse \in {[phase |-> "reading", text |-> t, pos |-> 0, chunks |-> <<>>,
                 result |-> NoUsage] : t \in EventTexts}
    /\ rec = RecIdle
    /\ rep = RepIdle
    /\ cls = ClsIdle
    /\ cli = CliIdle

\* reader.read() delivers the next n tokens of the body as one chunk; the last
\* read the bound allows delivers all that is left
SseRead ==
    /\ sse.phase = "reading"
    /\ sse.pos < Len(sse.text)
    /\ Len(sse.chunks) < MaxReads
    /\ \E n \in 1..(Len(sse.text) - sse.pos) :
         /\ (Len(sse.chunks) = MaxReads - 1) => (n = Len(sse.text) - sse.pos)
         /\ sse' = [sse EXCEPT !.pos = @ + n,
                               !.chunks = Append(@, SubSeq(sse.text, sse.pos + 1, sse.pos + n))]
    /\ UNCHANGED <<calls, fs, rec, rep, cls, cli>>

\* reader.read() reports done: the counters are resolved
SseEnd ==
    /\ sse.phase = "reading"
    /\ sse.pos = Len(sse.text)
    /\ sse' = [sse EXCEPT !.phase = "done", !.result = ResolveUsage(sse.chunks)]
    /\ UNCHANGED <<calls, fs, rec, rep, cls, cli>>

NextSSE == SseRead \/ SseEnd

SpecSSE == InitSSE /\ [][NextSSE]_vars

----------------------------------------------------------------------------
(* parseSSEUsage taken alone: an event text that the reader got in one chunk *)

\* the lines above, an event of another type, a payload that is not JSON, a
\* number with a space in it, "data:" without the space, an empty line
ParsedLines ==
    EventLines \cup
    { <<"data:", " ", "ot", "}">>,
      <<"data:", " ", "x">>,
      <<"data:", " ", "ms", "1", " ", "2", "}">>,
      <<"data:", "ms", "1", "}">>,
      <<>> }

ParsedTexts ==
    {JoinLines(ls) : ls \in UNION {[1..n -> ParsedLines] : n \in 1..MaxLines}}

InitParse ==
    /\ calls = [i \in CallIds |-> IdleFrame]
    /\ fs = [log |-> NoFile, old |-> NoFile]
    /\ sse \in {[phase |-> "reading", text |-> t, pos |-> Len(t), chunks |-> <<t>>,
                 result |-> NoUsage] : t \in ParsedTexts}
    /\ rec = RecIdle
    /\ rep = RepIdle
    /\ cls = ClsIdle
    /\ cli = CliIdle

NextParse == SseEnd

SpecParse == InitParse /\ [][NextParse]_vars

----------------------------------------------------------------------------
(* The non-streaming callback taken alone: one response body, one record *)

RequestModels == {"unknown", "claude-haiku-4-5-20251001", "claude-opus-4-20250514", "my-model"}
ResponseModels == {"", "claude-sonnet-4-20250514", "claude-haiku-4-5-20251001", "other-model"}
Tokens == 0..MaxTok

UsageBodies ==
    {JsonData(m, TRUE, Usage(i, o, cr, cw)) :
        m \in ResponseModels, i \in Tokens, o \in Tokens, cr \in Tokens, cw \in Tokens}
    \cup {JsonData(m, FALSE, NoUsage) : m \in ResponseModels}

InitRecord ==
    /\ calls = [i \in CallIds |-> IdleFrame]
    /\ fs \in InitialDirs
    /\ sse = SseIdle
    /\ rec \in {[RecIdle EXCEPT !.phase = "in", !.model = m, !.data = d] :
                    m \in RequestModels, d \in UsageBodies}
    /\ rep = RepIdle
    /\ cls = ClsIdle
    /\ cli = CliIdle

\* clone.json() resolves with rec.data in an invocation whose request named rec.model
ThenCallback ==
    /\ rec.phase = "in"
    /\ \E renameOk \in BOOLEAN, writeOk \in BOOLEAN :
         LET r == OnJson(1, rep.now, rec.data, rec.model, UnknownLabel, Label("", HelloText))
         IN  /\ (~r.write => renameOk /\ writeOk)
             /\ fs' = IF r.write THEN appendLog(fs, r.entry, renameOk, writeOk) ELSE fs
             /\ rec' = [rec EXCEPT !.phase = IF r.write /\ writeOk THEN "written" ELSE "skipped",
                                   !.out = r]
    /\ UNCHANGED <<calls, sse, rep, cls, cli>>

NextRecord == ThenCallback

SpecRecord == InitRecord /\ [][NextRecord]_vars

----------------------------------------------------------------------------
(* The sink and the report loader: appends, the clock, loadCalls *)

MaxTicks == 2               \* days the clock advances
StartTime == 20000 * SecondsPerDay   \* Date.now() / 1000 when the model starts

\* the data directory: no log, a log exactly at the threshold, a log past it
LogDirs ==
    {[log |-> NoFile, old |-> NoFile],
     [log |-> OldContent(MAX_FILE_SIZE), old |-> NoFile],
     [log |-> OldContent(MAX_FILE_SIZE + 1), old |-> OldContent(7)]}

\* the record of the n-th append
SinkEntry(n, now) ==
    Entry(n, now, "claude-haiku-4-5-20251001", UnknownLabel, Label("", HelloText),
          Usage(1, 2, 0, 0), CostField("claude-haiku-4-5-20251001", Usage(1, 2, 0, 0)), FALSE)

InitLog ==
    /\ calls = [i \in CallIds |-> IdleFrame]
    /\ fs \in LogDirs
    /\ sse = SseIdle
    /\ rec = RecIdle
    /\ rep = [RepIdle EXCEPT !.now = StartTime]
    /\ cls = ClsIdle
    /\ cli = CliIdle

\* appendLog(entry) by the hook
LogAppend ==
    /\ rep.appends < MaxAppends
    /\ \E renameOk \in BOOLEAN, writeOk \in BOOLEAN :
         LET e == SinkEntry(rep.appends + 1, rep.now)
         IN  /\ fs' = appendLog(fs, e, renameOk, writeOk)
             /\ rep' = [rep EXCEPT !.appends = @ + 1,
                                   !.written = IF writeOk THEN Append(@, e) ELSE @,
                                   !.last = [op |-> "append", before |-> fs, entry |-> e,
                                             renameOk |-> renameOk, writeOk |-> writeOk],
                                   !.loaded = <<>>, !.phase = "idle"]
    /\ UNCHANGED <<calls, sse, rec, cls, cli>>

\* a day passes
Tick ==
    /\ rep.now < StartTime + MaxTicks * SecondsPerDay
    /\ rep' = [rep EXCEPT !.now = @ + SecondsPerDay, !.loaded = <<>>, !.phase = "idle"]
    /\ UNCHANGED <<calls, fs, sse, rec, cls, cli>>

\* the report runs loadCalls(days)
Load ==
    /\ rep.phase = "idle"
    /\ \E days \in {1, DefaultDays} :
         rep' = [rep EXCEPT !.days = days, !.cutoff = sinceTs(rep.now, days),
                            !.loaded = loadCalls(fs, rep.now, days), !.phase = "loaded"]
    /\ UNCHANGED <<calls, fs, sse, rec, cls, cli>>

NextLog == LogAppend \/ Tick \/ Load

SpecLog == InitLog /\ [][NextLog]_vars

----------------------------------------------------------------------------
(* extractContext taken alone: one request body, one label *)

AgentText == Text("agent-7", 7)
SystemText == Text("You are a helpful agent", 23)
LongSystemText == Text("a system prompt of 120 characters", 120)

UserIds == {NoUserId, UserId(NoText), NumberUserId, UserId(AgentText), UserId(LongText)}

MessageLists ==
    {NoMessages, MsgObject, MsgString,
     MsgList(<<UserMsg(CronText)>>),
     MsgList(<<UserMsg(CompactedText)>>),
     MsgList(<<Msg("assistant", StringContent(CronText)), Msg("user", BlocksContent(LongText))>>),
     MsgList(<<Msg("user", NoContent), UserMsg(HelloText)>>),
     MsgList(<<Msg("system", StringContent(HelloText))>>),
     MsgList(<<NullMsg, UserMsg(CronText)>>)}

SystemPrompts == {NoText, SystemText, LongSystemText}

ClassifierBodies ==
    {JsonObject("claude-sonnet-4-5-20250929", FALSE, u, m, sys) :
        u \in UserIds, m \in MessageLists, sys \in SystemPrompts}

InitContext ==
    /\ calls = [i \in CallIds |-> IdleFrame]
    /\ fs = [log |-> NoFile, old |-> NoFile]
    /\ sse = SseIdle
    /\ rec = RecIdle
    /\ rep = RepIdle
    /\ cls \in {[ClsIdle EXCEPT !.phase = "in", !.body = b] : b \in ClassifierBodies}
    /\ cli = CliIdle

\* const ctx = extractContext(body), line 160
Classify ==
    /\ cls.phase = "in"
    /\ cls' = [cls EXCEPT !.phase = "done", !.out = extractContext(cls.body)]
    /\ UNCHANGED <<calls, fs, sse, rec, rep, cli>>

NextContext == Classify

SpecContext == InitContext /\ [][NextContext]_vars

----------------------------------------------------------------------------
(* A report command taken alone: the calls that loadCalls returned, one command *)

MaxBase == 2                \* calls of a loaded array that are chosen freely

(* the ctx fields of the records *)
CtxCronGmail ==
    <<"c", "r", "o", "n", ":", "G", "m", "a", "i", "l", " ", "D", "i", "g",
      "e", "s", "t">>
CtxGmailText ==
    <<"C", "h", "e", "c", "k", " ", "G", "m", "a", "i", "l", " ", "i", "n",
      "b", "o", "x">>
CtxCron42 == <<"c", "r", "o", "n", ":", "4", "2">>
CtxHello == <<"h", "e", "l", "l", "o">>
CtxCronMorning ==
    <<"c", "r", "o", "n", ":", "G", "m", "a", "i", "l", " ", "D", "i", "g",
      "e", "s", "t", " ", "U+2014", " ", "M", "o", "r", "n", "i", "n", "g",
      "!">>
CtxCronConstructor ==
    <<"c", "r", "o", "n", ":", "c", "o", "n", "s", "t", "r", "u", "c", "t",
      "o", "r">>
CtxCronCompaction ==
    <<"c", "r", "o", "n", ":", " ", "C", "o", "m", "p", "a", "c", "t", "i",
      "o", "n", " ">>
CtxSystem ==
    <<"s", "y", "s", "t", "e", "m", ":", "Y", "o", "u", " ", "a", "r", "e",
      " ", "a", " ", "h", "e", "l", "p", "f", "u", "l", " ", "a", "g", "e",
      "n", "t">>

CompactionCall == LoggedCall(compaction, "claude-haiku-4-5-20251001", 10000)
SessionCall == LoggedCall(CtxHello, "claude-opus-4-20250514", 600000)

LoggedCalls ==
    {CompactionCall, SessionCall,
     LoggedCall(CtxCronCompaction, "claude-sonnet-4-5-20250929", 10000),
     LoggedCall(CtxCronGmail, "claude-sonnet-4-5-20250929", 200000),
     LoggedCall(CtxGmailText, "claude-haiku-4-5-20251001", 20000),
     LoggedCall(CtxCron42, "claude-sonnet-4-5-20250929", 200000),
     LoggedCall(CtxCronMorning, "claude-haiku-4-5-20251001", DefaultThreshold),
     LoggedCall(CtxSystem, "claude-sonnet-4-20250514", 490000),
     LoggedCall(CtxCronConstructor, "claude-haiku-4-5-20251001", 10000),
     LoggedCall(<<>>, "unknown", 0)}

\* n copies of a call
Copies(n, c) == [i \in 1..n |-> c]

\* what the log held before the calls chosen freely: nothing, a run of
\* compaction calls one short of the limit, a run of costly calls one short of
\* the rows of the alerts view
Runs ==
    {<<>>, Copies(CompactionLimit - 1, CompactionCall), Copies(AlertRows - 1, SessionCall)}

LoadedArrays ==
    {run \o base : run \in Runs,
                   base \in UNION {[1..n -> LoggedCalls] : n \in 0..MaxBase}}

Thresholds == {DefaultThreshold, HighCost}

InitReport ==
    /\ calls = [i \in CallIds |-> IdleFrame]
    /\ fs = [log |-> NoFile, old |-> NoFile]
    /\ sse = SseIdle
    /\ rec = RecIdle
    /\ rep = RepIdle
    /\ cls = ClsIdle
    /\ cli \in {[CliIdle EXCEPT !.phase = "in", !.calls = cs] : cs \in LoadedArrays}

\* case 'alerts': cmdAlerts(calls, threshold)
RunAlerts ==
    /\ cli.phase = "in"
    /\ \E threshold \in Thresholds :
         cli' = [cli EXCEPT !.phase = "done", !.cmd = "alerts", !.threshold = threshold,
                            !.out = cmdAlerts(cli.calls, threshold)]
    /\ UNCHANGED <<calls, fs, sse, rec, rep, cls>>

\* case 'top': cmdTop(calls, days, limit)
RunTop ==
    /\ cli.phase = "in"
    /\ cli' = [cli EXCEPT !.phase = "done", !.cmd = "top",
                          !.out = cmdTop(cli.calls, TopLimit)]
    /\ UNCHANGED <<calls, fs, sse, rec, rep, cls>>

\* case 'report': cmdReport(calls, days)
RunReport ==
    /\ cli.phase = "in"
    /\ cli' = [cli EXCEPT !.phase = "done", !.cmd = "report",
                          !.out = cmdReport(cli.calls)]
    /\ UNCHANGED <<calls, fs, sse, rec, rep, cls>>

NextReport == RunAlerts \/ RunTop \/ RunReport

SpecReport == InitReport /\ [][NextReport]_vars

----------------------------------------------------------------------------
(* Claims about the patched fetch, checked under Spec *)

Ended(i) == calls[i].pc \in {"returned", "rejected"}

\* the records of invocation i that the two files hold
LinesOf(f, i) == {k \in 1..Len(f.lines) : f.lines[k].call = i}
RecordsOf(i) == Cardinality(LinesOf(fs.log, i)) + Cardinality(LinesOf(fs.old, i))

AllLines == {fs.log.lines[k] : k \in 1..Len(fs.log.lines)}
            \cup {fs.old.lines[k] : k \in 1..Len(fs.old.lines)}

RECURSIVE SumWrites(_)
SumWrites(n) == IF n = 0 THEN 0 ELSE calls[n].writes + SumWrites(n - 1)

OkCalls == {i \in CallIds : calls[i].matched /\ calls[i].pc = "returned" /\ calls[i].resp.ok}

\* C1: a matched invocation, whatever its request body, calls the original
\* fetch exactly once and ends as the original fetch ended: the request-side
\* inspection never makes it reject.
C1_InspectionNeverAborts ==
    \A i \in CallIds :
        (calls[i].matched /\ Ended(i)) =>
            /\ calls[i].origCalls = 1
            /\ calls[i].outcome.kind = calls[i].origOutcome.kind
            /\ (calls[i].outcome.kind = "error" => calls[i].outcome = calls[i].origOutcome)

\* C2: when the original fetch of a matched invocation rejects or resolves with
\* a response that is not ok, no record is appended, no detached task runs, and
\* the wrapper rejects with that error or returns that response.
C2_NoRecordOnFailure ==
    \A i \in CallIds :
        (/\ calls[i].matched
         /\ \/ calls[i].origOutcome.kind = "error"
            \/ (calls[i].origOutcome.kind = "response" /\ ~calls[i].resp.ok)) =>
            /\ calls[i].writes = 0
            /\ RecordsOf(i) = 0
            /\ calls[i].task = "none"
            /\ ~calls[i].escaped
            /\ calls[i].outcome = calls[i].origOutcome
            /\ calls[i].pc = IF calls[i].origOutcome.kind = "error" THEN "rejected" ELSE "returned"

C2_Witness ==
    \E i, j \in CallIds :
        /\ calls[i].matched /\ calls[i].pc = "rejected" /\ calls[i].origOutcome.kind = "error"
        /\ calls[j].matched /\ calls[j].pc = "returned" /\ ~calls[j].resp.ok
        /\ calls[j].streaming

\* C3: once the original fetch of a matched invocation has resolved with an ok
\* response, the wrapper has returned a response (the one its branch returns),
\* and whatever fails in the detached task afterwards (stream read, JSON,
\* rotation, append) neither changes that nor leaves the task.
C3_ObservationFailuresSwallowed ==
    \A i \in CallIds :
        (calls[i].matched /\ calls[i].origOutcome.kind = "response" /\ calls[i].resp.ok) =>
            /\ calls[i].pc = "returned"
            /\ calls[i].outcome.kind = "response"
            /\ calls[i].outcome.ok
            /\ calls[i].outcome.obj =
                 IF Branch(calls[i].streaming, calls[i].resp) = "stream"
                 THEN Obj("hook", i) ELSE calls[i].resp.obj
            /\ ~calls[i].escaped

C3_Witness ==
    \E i, j \in CallIds :
        /\ calls[i].matched /\ calls[i].resp.ok /\ calls[i].streaming
        /\ calls[i].task = "done" /\ calls[i].failed
        /\ calls[j].matched /\ calls[j].resp.ok /\ ~calls[j].streaming
        /\ calls[j].task = "done" /\ calls[j].failed

\* C4: no record with input_tokens = 0 and output_tokens = 0 is ever in the
\* log, whichever branch wrote it.
C4_NoZeroRecord ==
    \A e \in AllLines : e.input_tokens > 0 \/ e.output_tokens > 0

\* C5: under any interleaving each invocation appends at most one record, and
\* the records written never outnumber the matched invocations that returned
\* an ok response.
C5_AtMostOneRecordPerCall ==
    /\ \A i \in CallIds : calls[i].writes <= 1 /\ RecordsOf(i) <= calls[i].writes
    /\ SumWrites(MaxCalls) <= Cardinality(OkCalls)
    /\ \A i \in CallIds : calls[i].writes = 1 => i \in OkCalls

\* two invocations in flight together, the later one's record written first
C5_Witness ==
    \E i, j \in CallIds :
        /\ i < j
        /\ calls[i].writes = 1 /\ calls[j].writes = 1
        /\ Len(fs.log.lines) = 2
        /\ fs.log.lines[1].call = j /\ fs.log.lines[2].call = i

\* C6 as stated: every invocation passes its arguments to the original fetch
\* and returns the very response object the original fetch produced.
C6_IdenticalResponseObject ==
    \A i \in CallIds :
        /\ calls[i].pc = "fetching" => calls[i].origArgs = calls[i].args
        /\ calls[i].pc = "returned" => calls[i].outcome.obj = calls[i].resp.obj

\* C6 amended: the original fetch is called at most once and only with the
\* caller's arguments; a returned value is the very response object of the
\* original fetch, except in the streaming branch (matched, stream requested,
\* ok response with a body), where it is a new Response made by the wrapper
\* with the original's status.
C6_IdenticalExceptStreaming ==
    \A i \in CallIds :
        /\ calls[i].origCalls <= 1
        /\ calls[i].pc = "fetching" =>
              calls[i].origCalls = 1 /\ calls[i].origArgs = calls[i].args
        /\ calls[i].pc = "returned" =>
              /\ calls[i].origCalls = 1
              /\ calls[i].outcome.kind = "response"
              /\ calls[i].outcome.ok = calls[i].resp.ok
              /\ calls[i].outcome.obj =
                   IF /\ calls[i].matched /\ calls[i].streaming
                      /\ calls[i].resp.ok /\ calls[i].resp.hasBody
                   THEN Obj("hook", i) ELSE calls[i].resp.obj

C6_Witness ==
    \E i, j \in CallIds :
        /\ calls[i].pc = "returned" /\ calls[i].outcome.obj = Obj("hook", i)
        /\ calls[j].pc = "returned" /\ calls[j].matched /\ calls[j].streaming
        /\ calls[j].outcome.obj = Obj("origin", j)

----------------------------------------------------------------------------
(* Claims about the non-streaming record, checked under SpecRecord *)

\* data.model || model
RecordModel == IF rec.data.model = "" THEN rec.model ELSE rec.data.model

\* the line the callback appended
WrittenLine == fs.log.lines[Len(fs.log.lines)]

RecordEstimate ==
    estimateCost(RecordModel, rec.data.usage.inputTokens, rec.data.usage.outputTokens,
                 rec.data.usage.cacheRead, rec.data.usage.cacheWrite)

TokenFieldsCopied ==
    /\ WrittenLine.input_tokens = rec.data.usage.inputTokens
    /\ WrittenLine.output_tokens = rec.data.usage.outputTokens
    /\ WrittenLine.cache_read = rec.data.usage.cacheRead
    /\ WrittenLine.cache_write = rec.data.usage.cacheWrite

\* C7 as stated: the record written for a response with a usage object copies
\* the four counts and its cost equals estimateCost on them (a cost in
\* micro-dollars is 100 units of estimateCost).
C7_CostEqualsEstimate ==
    rec.phase = "written" =>
        /\ TokenFieldsCopied
        /\ WrittenLine.cost * 100 = RecordEstimate

\* C7 amended: exactly one record is written, it copies the four counts, and
\* its cost is estimateCost on them rounded to six decimals (whole
\* micro-dollars, halves up), priced by the response's model if it names one,
\* else the request's, or by the default entry if that model is not in the table.
C7_CostIsRoundedEstimate ==
    /\ rec.phase = "written" =>
        /\ rec.data.hasUsage
        /\ Len(fs.log.lines) = 1
        /\ TokenFieldsCopied
        /\ WrittenLine.model = RecordModel
        /\ ~WrittenLine.stream
        /\ WrittenLine.cost = RoundMicro(RecordEstimate)
        /\ RecordModel \notin Models =>
              WrittenLine.cost = RoundMicro(300 * WrittenLine.input_tokens
                                            + 1500 * WrittenLine.output_tokens
                                            + 30 * WrittenLine.cache_read
                                            + 375 * WrittenLine.cache_write)
    /\ rec.phase = "skipped" => fs.log.lines = <<>>

\* a record whose cost the rounding changes, priced by the default entry
C7_Witness ==
    /\ rec.phase = "written"
    /\ RecordModel \notin Models
    /\ WrittenLine.cost * 100 # RecordEstimate
    /\ WrittenLine.input_tokens # WrittenLine.output_tokens
    /\ WrittenLine.cache_read # WrittenLine.cache_write

----------------------------------------------------------------------------
(* Claims about the log-stream reader, checked under SpecSSE *)

\* C8: the counters the reader resolves depend only on the concatenation of
\* the chunks: every way of cutting an event text into chunks resolves the
\* counters of the uncut text.
C8_ChunkBoundaryIndependence ==
    sse.phase = "done" => sse.result = parseSSEUsage(sse.text)

\* a text cut inside an event line, between two digits of a count
C8_Witness ==
    /\ sse.phase = "done"
    /\ Len(sse.chunks) = 2
    /\ sse.chunks[1][Len(sse.chunks[1])] \in Digits
    /\ sse.chunks[2][1] \in Digits
    /\ sse.result.inputTokens > 9
    /\ sse.result.outputTokens > 0

----------------------------------------------------------------------------
(* Claims about the sink and the loader, checked under SpecLog *)

AppendedCleanly ==
    rep.last.op = "append" /\ rep.last.renameOk /\ rep.last.writeOk

\* C9: an append whose file operations succeed, made while the active log
\* exceeds 50 MiB, leaves the prior content of the log in the .old file (in
\* place of any earlier .old) and a log holding only the new line; made while
\* the log does not exceed 50 MiB, it leaves .old and the existing lines as
\* they were and adds the new line at the end.
C9_RotationOnAppend ==
    AppendedCleanly =>
        LET b == rep.last.before
        IN  IF b.log.exists /\ FileSize(b.log) > MAX_FILE_SIZE
            THEN /\ fs.old = b.log
                 /\ fs.log = [exists |-> TRUE, pre |-> 0, lines |-> <<rep.last.entry>>]
            ELSE /\ fs.old = b.old
                 /\ fs.log.exists
                 /\ fs.log.pre = b.log.pre
                 /\ fs.log.lines = Append(b.log.lines, rep.last.entry)

\* a rotation that moves lines of this run aside and replaces an earlier .old
C9_Witness ==
    /\ AppendedCleanly
    /\ FileSize(rep.last.before.log) > MAX_FILE_SIZE
    /\ Len(rep.last.before.log.lines) > 0
    /\ rep.last.before.old.exists
    /\ rep.last.before.old # rep.last.before.log

Among(e, lines) == \E k \in 1..Len(lines) : lines[k] = e

\* C10: after any sequence of appends, loadCalls(days) returns every record
\* that was written with ts >= cutoff and no record with ts < cutoff.
C10_LoaderReturnsWindow ==
    rep.phase = "loaded" =>
        /\ \A k \in 1..Len(rep.written) :
              rep.written[k].ts >= rep.cutoff => Among(rep.written[k], rep.loaded)
        /\ \A k \in 1..Len(rep.loaded) : rep.loaded[k].ts >= rep.cutoff


----------------------------------------------------------------------------
(* Claims about extractContext, checked under SpecContext *)

HasUserId(body) == body.user_id.tag = "string" /\ body.user_id.len > 0

\* C11: for every request body whose metadata.user_id is a non-empty string,
\* extractContext returns exactly that identifier (whole, with no prefix),
\* whatever the messages and the system prompt are
C11_UserIdFirst ==
    (cls.phase = "done" /\ HasUserId(cls.body))
        => cls.out = Returned(Label("", Text(cls.body.user_id.s, cls.body.user_id.len)))

\* an identifier of 250 characters next to a cron message and a system prompt
C11_Witness ==
    /\ cls.phase = "done"
    /\ cls.body.user_id = UserId(LongText)
    /\ cls.body.messages = MsgList(<<UserMsg(CronText)>>)
    /\ cls.body.system = SystemText
    /\ cls.out.val = Label("", LongText)


----------------------------------------------------------------------------
(* Claims about the report commands, checked under SpecReport *)

\* the command ran to its end and printed
Ran(cmd) == cli.phase = "done" /\ cli.cmd = cmd /\ ~cli.out.threw

Descending(rows) == \A i, j \in 1..Len(rows) : i < j => rows[i].cost >= rows[j].cost

\* the loaded calls at or above the threshold, and those the view lists
AtOrAbove == {k \in 1..Len(cli.calls) : cli.calls[k].cost >= cli.threshold}
Listed == {cli.out.rows[i].k : i \in 1..Len(cli.out.rows)}

FirstCall(ctx) ==
    CHOOSE k \in 1..Len(cli.calls) :
        /\ normalizeContext(cli.calls[k].ctx) = ctx
        /\ \A j \in 1..(k - 1) : normalizeContext(cli.calls[j].ctx) # ctx

\* C13: the top-contexts view lists the groups in descending order of cost,
\* and two groups of equal cost in the order in which their labels were first
\* met while grouping the calls
C13_TopOrder ==
    Ran("top") =>
        /\ Descending(cli.out.rows)
        /\ \A i, j \in 1..Len(cli.out.rows) :
               (i < j /\ cli.out.rows[i].cost = cli.out.rows[j].cost)
                   => FirstCall(cli.out.rows[i].ctx) < FirstCall(cli.out.rows[j].ctx)

RECURSIVE SumOver(_)
\* the summed cost of the loaded calls at the positions of the set ks
SumOver(ks) ==
    IF ks = {} THEN 0
    ELSE LET k == CHOOSE x \in ks : TRUE
         IN  cli.calls[k].cost + SumOver(ks \ {k})

IssuesOf(kind) == SelectSeq(cli.out.issues, LAMBDA issue : issue.kind = kind)

\* the loaded calls whose canonical context is compaction
CompactionCalls ==
    {k \in 1..Len(cli.calls) : normalizeContext(cli.calls[k].ctx) = compaction}

\* C14: the weekly report holds the compaction issue if and only if more than
\* 10 loaded calls have the canonical context compaction, and the issue adds
\* 0.7 times their summed cost to the estimated savings (70 units of 1e-8 USD
\* per micro-dollar); nothing is added when it is not raised
C14_CompactionRule ==
    Ran("report") =>
        /\ Len(IssuesOf("compaction")) = IF Cardinality(CompactionCalls) > 10 THEN 1 ELSE 0
        /\ \A i \in 1..Len(IssuesOf("compaction")) :
               /\ IssuesOf("compaction")[i].n = Cardinality(CompactionCalls)
               /\ IssuesOf("compaction")[i].cost = SumOver(CompactionCalls)
        /\ cli.out.savings - SumSavings(IssuesOf("misuse"))
               = IF Cardinality(CompactionCalls) > 10
                 THEN 70 * SumOver(CompactionCalls) ELSE 0

\* 11 compaction calls, one of them of a cron job named " Compaction "
C14_Witness ==
    /\ Ran("report")
    /\ Cardinality(CompactionCalls) = 11
    /\ \E k \in CompactionCalls : cli.calls[k].ctx = CtxCronCompaction
    /\ Len(IssuesOf("compaction")) = 1
    /\ cli.out.savings = 70 * 110000

\* the canonical labels of the loaded calls, and the calls of a label that use
\* a model outside the cheap set
LabelsLoaded == {normalizeContext(cli.calls[k].ctx) : k \in 1..Len(cli.calls)}
CallsOf(ctx) == {k \in 1..Len(cli.calls) : normalizeContext(cli.calls[k].ctx) = ctx}
NonCheapCalls(ctx) ==
    {k \in CallsOf(ctx) : cli.calls[k].model # "claude-haiku-4-5-20251001"}
NamesSummarization(ctx) == \E p \in SUMMARIZATION_PATTERNS : includes(ctx, p)

\* C15: the weekly report flags a group if and only if its canonical name
\* contains a summarization pattern and one of its calls uses a model outside
\* the cheap set (so never a group whose calls all use a cheap model); the
\* savings it adds for the group are the summed cost of those calls less 8%
C15_MisuseRule ==
    Ran("report") =>
        /\ {IssuesOf("misuse")[i].ctx : i \in 1..Len(IssuesOf("misuse"))}
               = {ctx \in LabelsLoaded : NamesSummarization(ctx) /\ NonCheapCalls(ctx) # {}}
        /\ \A i, j \in 1..Len(IssuesOf("misuse")) :
               IssuesOf("misuse")[i].ctx = IssuesOf("misuse")[j].ctx => i = j
        /\ \A i \in 1..Len(IssuesOf("misuse")) :
               LET issue == IssuesOf("misuse")[i]
               IN  /\ issue.n = Cardinality(NonCheapCalls(issue.ctx))
                   /\ issue.cost = SumOver(NonCheapCalls(issue.ctx))
                   /\ issue.savings = 92 * SumOver(NonCheapCalls(issue.ctx))
        /\ cli.out.savings - SumSavings(IssuesOf("compaction"))
               = SumSavings(IssuesOf("misuse"))

\* a group of one cheap and one other call is flagged for the other call alone
C15_Witness ==
    /\ Ran("report")
    /\ \E i \in 1..Len(cli.out.issues) :
           LET issue == cli.out.issues[i]
           IN  /\ issue.kind = "misuse"
               /\ Cardinality(CallsOf(issue.ctx)) = 2
               /\ issue.n = 1
               /\ issue.savings = 92 * 200000
    /\ Len(cli.calls) = 2


----------------------------------------------------------------------------
(* Claims about the patched fetch, continued (checked under Spec) *)

\* originalFetch resolved invocation i, a matched streaming call, with an ok
\* response that has a body
StreamingOk(i) ==
    /\ calls[i].matched /\ calls[i].streaming
    /\ calls[i].resp.ok /\ calls[i].resp.hasBody

\* C16: once originalFetch has resolved a matched streaming call with an ok
\* response, the wrapper has returned a response to the caller, in every state
\* of the detached task: while the log stream is still being read, when the
\* read fails, before usage is resolved and before or without a record
C16_ReturnDoesNotWait ==
    \A i \in CallIds :
        StreamingOk(i) =>
            /\ calls[i].pc = "returned"
            /\ calls[i].outcome.kind = "response"
            /\ calls[i].outcome.ok
            /\ calls[i].task \in {"reading", "done"}

\* the wrapper has returned; the log stream has chunks to deliver, none was
\* read, usage is not resolved and no record is written
C16_Witness ==
    \E i \in CallIds :
        /\ StreamingOk(i)
        /\ calls[i].pc = "returned"
        /\ calls[i].task = "reading"
        /\ calls[i].stream # <<>> /\ calls[i].chunks = <<>>
        /\ calls[i].writes = 0 /\ RecordsOf(i) = 0


----------------------------------------------------------------------------
(* Claims about parseSSEUsage, checked under SpecParse *)

TextLines == SplitOn(sse.text, "\n")

\* the event of line k: what its payload parses to, when the line has the
\* prefix and is not the [DONE] line
EventAt(k) ==
    LET trimmed == Trim(TextLines[k])
        data == SubSeq(trimmed, 3, Len(trimmed))
    IN  IF StartsWithData(trimmed) /\ data # <<"[DONE]">>
        THEN JsonParse(data)
        ELSE [ok |-> FALSE, type |-> "", nums |-> <<>>]

\* the lines that hold a well-formed event of a type
EventsOfType(type) ==
    {k \in 1..Len(TextLines) : EventAt(k).ok /\ EventAt(k).type = type}

Last(ks) == CHOOSE k \in ks : \A j \in ks : j <= k

\* the i-th count of the last event of a type, 0 when the event does not hold
\* it or when there is no such event
LastCount(type, i) ==
    IF EventsOfType(type) = {} THEN 0
    ELSE LET nums == EventAt(Last(EventsOfType(type))).nums
         IN  IF i <= Len(nums) THEN nums[i] ELSE 0

\* C17: the input, cache-read and cache-write counts that parseSSEUsage returns
\* are those of the last well-formed message_start event and the output count
\* is that of the last well-formed message_delta event (0 where there is
\* none); so lines without the prefix, the [DONE] line, payloads that are not
\* JSON and events of other types change nothing, and a result is returned
\* for every text
C17_LastEventWins ==
    sse.phase = "done" =>
        /\ sse.result.inputTokens = LastCount("message_start", 1)
        /\ sse.result.cacheRead = LastCount("message_start", 2)
        /\ sse.result.cacheWrite = LastCount("message_start", 3)
        /\ sse.result.outputTokens = LastCount("message_delta", 1)

\* two message_start events with different counts: those of the second are
\* returned
C17_Witness ==
    /\ sse.phase = "done"
    /\ Cardinality(EventsOfType("message_start")) = 2
    /\ EventAt(1).nums = <<12>>
    /\ EventAt(2).nums = <<2, 1>>
    /\ sse.result = Usage(2, 0, 1, 0)

============================================================================
